---- MODULE Spec2Model ----
(***************************************************************************)
(* Lesion-level evaluation of custom_scripts/F_evaluate_quantitative.py:   *)
(* connected-component labelling of the class masks, relabelling of the    *)
(* predicted instances, overlap matching, the per-case F1, the cohort loop *)
(* of compute_all_lesion_level_metrics and the cohort sections of the      *)
(* script (loading, merging on case_id, del, confusion matrix).            *)
(*                                                                         *)
(* A volume is a record [shape, data]: shape is <<a, b, c>> and data maps  *)
(* every index <<x, y, z>> of the shape to a label.  A table (DataFrame)   *)
(* is a record [columns, rows]: a set of column names and a sequence of    *)
(* rows, each row a function from the columns to values.  Case ids are     *)
(* numbers standing for the identifiers in sorted order.                   *)
(***************************************************************************)
EXTENDS Integers, Sequences, FiniteSets, TLC

VARIABLES
    pc,                    \* position in the script / in compute_all_lesion_level_metrics
    dataset,               \* "unit" (a bare call), "test" or "msseg2" (the script's sections)
    test_ids,              \* the sorted case list
    summary,               \* metric_per_case of summary.json: the cases it holds, in order
    results_df,            \* test_results_df / MSSEG2_results_df: voxel table, then merged
    all_labels,            \* dict case -> label volume
    all_preds,             \* dict case -> prediction volume
    site,                  \* call site of compute_all_lesion_level_metrics
    lesion_class,          \* its lesion_class argument
    idx,                   \* position of the running for loop in its list (1-based)
    lesion_level_metrics,  \* the list of records the cohort loop appends to
    frame,                 \* locals of the last compute_lesion_level_metrics call ({} if none)
    ret,                   \* DataFrame returned by compute_all_lesion_level_metrics
    b_res,                 \* b_test_lesion_wise_res
    cm,                    \* the confusion matrix
    error                  \* the uncaught exception that ended the run ("none" if none)

vars == <<pc, dataset, test_ids, summary, results_df, all_labels, all_preds, site, lesion_class,
          idx, lesion_level_metrics, frame, ret, b_res, cm, error>>

(***************************************************************************)
(* Bounds of the model.                                                    *)
(***************************************************************************)
\* most voxels that are not background in the two volumes of a pair on GridShape
MaxVoxels == 2
\* number of case identifiers of a cohort
MaxCases == 2

Labels == {0, 1, 2}
LesionClasses == {1, 2}
CaseIds == 1..MaxCases

\* shapes of the volumes given to a bare call of compute_all_lesion_level_metrics:
\* a line, on which every pair of volumes is enumerated, and a grid with face,
\* edge and corner neighbours, on which the pairs of at most MaxVoxels voxels are
LineShape == <<3, 1, 1>>
GridShape == <<3, 2, 2>>
\* shape of the volumes of a cohort case, and the shape of a prediction that does not match it
CaseShape == <<1, 1, 1>>
OtherShape == <<2, 1, 1>>

(***************************************************************************)
(* Arrays.                                                                 *)
(***************************************************************************)
Size(shape) == shape[1] * shape[2] * shape[3]

Idx(shape) == (0..(shape[1] - 1)) \X (0..(shape[2] - 1)) \X (0..(shape[3] - 1))

\* index of the k-th element in C (row-major) order
Unravel(shape, k) ==
    <<k \div (shape[2] * shape[3]), (k \div shape[3]) % shape[2], k % shape[3]>>

\* ndarray.flatten(): the elements in C order
Flatten(vol) == [k \in 1..Size(vol.shape) |-> vol.data[Unravel(vol.shape, k - 1)]]

VolumesOf(shape) == {[shape |-> shape, data |-> d] : d \in [Idx(shape) -> Labels]}

NonZero(vol) == Cardinality({v \in Idx(vol.shape) : vol.data[v] # 0})

Zeros(shape) == [shape |-> shape, data |-> [v \in Idx(shape) |-> 0]]

(***************************************************************************)
(* compute_lesion_level_metrics                                            *)
(***************************************************************************)
Offsets == {-1, 0, 1} \X {-1, 0, 1} \X {-1, 0, 1}

\* the 6-connectivity cross scipy uses when no structure is given
StructureFaces ==
    [d \in Offsets |->
        IF (IF d[1] = 0 THEN 0 ELSE 1) + (IF d[2] = 0 THEN 0 ELSE 1)
             + (IF d[3] = 0 THEN 0 ELSE 1) <= 1 THEN 1 ELSE 0]

\* structure=np.ones(shape=(3, 3, 3))
Structure == [d \in Offsets |-> 1]

\* (labels == lesion_class).astype(int)
Binarize(vol, class) ==
    [shape |-> vol.shape,
     data |-> [v \in Idx(vol.shape) |-> IF vol.data[v] = class THEN 1 ELSE 0]]

\* v lies under a non-zero element of the structuring element centred at u
Neighbours(structure, u, v) ==
    LET d == <<v[1] - u[1], v[2] - u[2], v[3] - u[3]>>
    IN  d \in Offsets /\ structure[d] # 0

RECURSIVE Fill(_, _, _)
\* the feature of the foreground fg that contains the voxels S
Fill(fg, structure, S) ==
    LET T == S \cup {v \in fg : \E u \in S : Neighbours(structure, u, v)}
    IN  IF T = S THEN S ELSE Fill(fg, structure, T)

RECURSIVE LabelScan(_, _, _, _, _)
\* scipy.ndimage.label: features are numbered from 1 in the order in which a
\* C-order scan meets their first voxel
LabelScan(input, structure, k, out, n) ==
    IF k = Size(input.shape)
    THEN [lesions |-> [shape |-> input.shape, data |-> out], n |-> n]
    ELSE LET v == Unravel(input.shape, k)
         IN  IF input.data[v] # 0 /\ out[v] = 0
             THEN LET comp == Fill({u \in Idx(input.shape) : input.data[u] # 0},
                                   structure, {v})
                  IN  LabelScan(input, structure, k + 1,
                                [u \in Idx(input.shape) |->
                                    IF u \in comp THEN n + 1 ELSE out[u]],
                                n + 1)
             ELSE LabelScan(input, structure, k + 1, out, n)

Label(input, structure) ==
    LabelScan(input, structure, 0, [v \in Idx(input.shape) |-> 0], 0)

\* the assignment of the loop with the mask taken from the array being written
RelabelStepInPlace(predicted_lesions, new_predicted_lesions, pred_lesion_id, n_gt_lesions) ==
    [v \in DOMAIN new_predicted_lesions |->
        IF new_predicted_lesions[v] = pred_lesion_id
        THEN pred_lesion_id + n_gt_lesions
        ELSE new_predicted_lesions[v]]

\* new_predicted_lesions[predicted_lesions == pred_lesion_id] = new_pred_lesion_id
RelabelStep(predicted_lesions, new_predicted_lesions, pred_lesion_id, n_gt_lesions) ==
    [v \in DOMAIN new_predicted_lesions |->
        IF predicted_lesions[v] = pred_lesion_id
        THEN pred_lesion_id + n_gt_lesions
        ELSE new_predicted_lesions[v]]

RECURSIVE RelabelLoop(_, _, _, _, _)
\* for pred_lesion_id in range(1, n_predicted_lesions + 1)
RelabelLoop(predicted_lesions, new_predicted_lesions, pred_lesion_id, n_predicted_lesions, n_gt_lesions) ==
    IF pred_lesion_id > n_predicted_lesions
    THEN new_predicted_lesions
    ELSE RelabelLoop(predicted_lesions,
                     RelabelStep(predicted_lesions, new_predicted_lesions,
                                 pred_lesion_id, n_gt_lesions),
                     pred_lesion_id + 1, n_predicted_lesions, n_gt_lesions)

\* set(np.unique(gt_lesions[(gt_lesions > 0) & (predicted_lesions > 0)]))
TpGt(gt_lesions, predicted_lesions) ==
    {gt_lesions[v] : v \in {u \in DOMAIN gt_lesions :
                                gt_lesions[u] > 0 /\ predicted_lesions[u] > 0}}

\* set(np.unique(new_predicted_lesions[(gt_lesions > 0) & (new_predicted_lesions > 0)]))
TpPred(gt_lesions, new_predicted_lesions) ==
    {new_predicted_lesions[v] : v \in {u \in DOMAIN gt_lesions :
                                gt_lesions[u] > 0 /\ new_predicted_lesions[u] > 0}}

\* the false-positive set without the difference with tp_pred
FpSetNoDifference(gt_lesions, new_predicted_lesions, tp_pred) ==
    {new_predicted_lesions[v] : v \in {u \in DOMAIN gt_lesions :
                                gt_lesions[u] = 0 /\ new_predicted_lesions[u] > 0}}

\* set(np.unique(new_predicted_lesions[(gt_lesions == 0) & (new_predicted_lesions > 0)])) - tp_pred
FpSet(gt_lesions, new_predicted_lesions, tp_pred) ==
    {new_predicted_lesions[v] : v \in {u \in DOMAIN gt_lesions :
                                gt_lesions[u] = 0 /\ new_predicted_lesions[u] > 0}}
        \ tp_pred

\* the false-negative set without the difference with tp_gt
FnSetNoDifference(gt_lesions, new_predicted_lesions, tp_gt) ==
    {gt_lesions[v] : v \in {u \in DOMAIN gt_lesions :
                                gt_lesions[u] > 0 /\ new_predicted_lesions[u] = 0}}

\* set(np.unique(gt_lesions[(gt_lesions > 0) & (new_predicted_lesions == 0)])) - tp_gt
FnSet(gt_lesions, new_predicted_lesions, tp_gt) ==
    {gt_lesions[v] : v \in {u \in DOMAIN gt_lesions :
                                gt_lesions[u] > 0 /\ new_predicted_lesions[u] = 0}}
        \ tp_gt

\* the true-positive count taken on the prediction side
TpCountPredSide(tp_gt, tp_pred) == Cardinality(tp_pred)

\* tp = len(tp_gt)
TpCount(tp_gt, tp_pred) == Cardinality(tp_gt)

\* The locals of compute_lesion_level_metrics when it returns or raises.  exc is
\* "none" on return, "ShapeMismatch" when the boolean masks of volumes of different
\* shapes cannot be combined or do not fit the indexed array, "AssertionError" when
\* one of the two assertions fails.
ComputeLesionLevelMetrics(labels, preds, class) ==
    LET gt == Label(Binarize(labels, class), Structure)
        pr == Label(Binarize(preds, class), Structure)
        gt_lesions == gt.lesions.data
        n_gt_lesions == gt.n
        predicted_lesions == pr.lesions.data
        n_predicted_lesions == pr.n
        new_predicted_lesions ==
            RelabelLoop(predicted_lesions, predicted_lesions, 1,
                        n_predicted_lesions, n_gt_lesions)
        base == [gt_lesions |-> gt.lesions, n_gt_lesions |-> n_gt_lesions,
                 predicted_lesions |-> pr.lesions,
                 n_predicted_lesions |-> n_predicted_lesions,
                 new_predicted_lesions |->
                     [shape |-> preds.shape, data |-> new_predicted_lesions],
                 lesion_class |-> class]
    IN  IF labels.shape # preds.shape
        THEN base @@ [tp_gt |-> {}, tp_pred |-> {}, fp_set |-> {}, fn_set |-> {},
                      tp |-> 0, fp |-> 0, fn |-> 0, exc |-> "ShapeMismatch"]
        ELSE LET tp_gt == TpGt(gt_lesions, predicted_lesions)
                 tp_pred == TpPred(gt_lesions, new_predicted_lesions)
                 fp_set == FpSet(gt_lesions, new_predicted_lesions, tp_pred)
                 fn_set == FnSet(gt_lesions, new_predicted_lesions, tp_gt)
                 tp == TpCount(tp_gt, tp_pred)
                 fp == Cardinality(fp_set)
                 fn == Cardinality(fn_set)
             IN  base @@ [tp_gt |-> tp_gt, tp_pred |-> tp_pred,
                          fp_set |-> fp_set, fn_set |-> fn_set,
                          tp |-> tp, fp |-> fp, fn |-> fn,
                          exc |-> IF Cardinality(tp_pred) + fp = n_predicted_lesions
                                     /\ Cardinality(tp_gt) + fn = n_gt_lesions
                                  THEN "none" ELSE "AssertionError"]

(***************************************************************************)
(* compute_all_lesion_level_metrics                                        *)
(***************************************************************************)
\* np.NAN
NaN == [nan |-> TRUE, num |-> 0, den |-> 0]

\* the score with the zero denominator mapped to 0 instead of the sentinel
F1ScoreZero(tp, fp, fn) ==
    IF 2 * tp + fp + fn = 0
    THEN [nan |-> FALSE, num |-> 0, den |-> 1]
    ELSE [nan |-> FALSE, num |-> 2 * tp, den |-> 2 * tp + fp + fn]

\* try: f1 = 2 * tp / (2 * tp + fp + fn)  except ZeroDivisionError: f1 = np.NAN
\* (tp, fp, fn are Python ints: the quotient num / den is kept as the pair)
F1Score(tp, fp, fn) ==
    IF 2 * tp + fp + fn = 0
    THEN NaN
    ELSE [nan |-> FALSE, num |-> 2 * tp, den |-> 2 * tp + fp + fn]

\* lesion_str = "new" if lesion_class == 2 else "basal"
LesionColumns(class) ==
    IF class = 2
    THEN [n_ref |-> "n_ref_new_lesions", n_pred |-> "n_pred_new_lesions",
          tp |-> "new_lesion_tp", fp |-> "new_lesion_fp", fn |-> "new_lesion_fn",
          f1 |-> "new_lesion_F1"]
    ELSE [n_ref |-> "n_ref_basal_lesions", n_pred |-> "n_pred_basal_lesions",
          tp |-> "basal_lesion_tp", fp |-> "basal_lesion_fp", fn |-> "basal_lesion_fn",
          f1 |-> "basal_lesion_F1"]

\* the record appended for a case
CaseRecord(case, class, m) ==
    LET col == LesionColumns(class)
    IN  ("case_id" :> case) @@ (col.n_ref :> m.n_gt_lesions)
          @@ (col.n_pred :> m.n_predicted_lesions)
          @@ (col.tp :> m.tp) @@ (col.fp :> m.fp) @@ (col.fn :> m.fn)
          @@ (col.f1 :> F1Score(m.tp, m.fp, m.fn))

\* pd.DataFrame.from_records(data=records): no record gives a table without columns
FromRecords(records) ==
    [columns |-> IF Len(records) = 0 THEN {} ELSE DOMAIN records[1],
     rows |-> records]

NoTable == [columns |-> {}, rows |-> <<>>]

\* the iteration with the exception of a case caught: the case gets no record
\* and the loop goes on
LesionLoopStepSkipping ==
    /\ pc = "loop"
    /\ idx <= Len(test_ids)
    /\ LET case == test_ids[idx]
           m == ComputeLesionLevelMetrics(all_labels[case], all_preds[case], lesion_class)
       IN  /\ frame' = {m}
           /\ lesion_level_metrics' =
                  IF m.exc = "none"
                  THEN Append(lesion_level_metrics, CaseRecord(case, lesion_class, m))
                  ELSE lesion_level_metrics
           /\ idx' = idx + 1
           /\ UNCHANGED <<pc, error>>
    /\ UNCHANGED <<dataset, test_ids, summary, results_df, all_labels, all_preds, site,
                   lesion_class, ret, b_res, cm>>

\* one iteration of `for case in tqdm(ids)` (lines 161-180)
LesionLoopStep ==
    /\ pc = "loop"
    /\ idx <= Len(test_ids)
    /\ LET case == test_ids[idx]
           m == ComputeLesionLevelMetrics(all_labels[case], all_preds[case], lesion_class)
       IN  /\ frame' = {m}
           /\ IF m.exc = "none"
              THEN /\ lesion_level_metrics' =
                          Append(lesion_level_metrics, CaseRecord(case, lesion_class, m))
                   /\ idx' = idx + 1
                   /\ UNCHANGED <<pc, error>>
              ELSE /\ pc' = "aborted"
                   /\ error' = m.exc
                   /\ UNCHANGED <<lesion_level_metrics, idx>>
    /\ UNCHANGED <<dataset, test_ids, summary, results_df, all_labels, all_preds, site,
                   lesion_class, ret, b_res, cm>>

\* return pd.DataFrame.from_records(data=lesion_level_metrics) (line 182)
LesionReturn ==
    /\ pc = "loop"
    /\ idx > Len(test_ids)
    /\ ret' = FromRecords(lesion_level_metrics)
    /\ pc' = "ret"
    /\ UNCHANGED <<dataset, test_ids, summary, results_df, all_labels, all_preds, site,
                   lesion_class, idx, lesion_level_metrics, frame, b_res, cm, error>>

(***************************************************************************)
(* The script: one cohort section (TEST, lines 222-245, or MSSEG2, lines   *)
(* 247-278).  The two sections share no data: each is a run of its own,    *)
(* selected by dataset.                                                    *)
(***************************************************************************)
\* format_results_into_df: one row per case of the summary.  The voxel metrics
\* of the rows (b_*, new_*) come from nnU-Net and are carried along unchanged
\* by the merges: the rows keep their key only.
FormatResultsIntoDf(all_results) ==
    FromRecords([k \in 1..Len(all_results) |-> ("case_id" :> all_results[k])])

\* the assignment keeping the current case only
DictSetOnly(dict, key, value) == (key :> value)

\* labels[case] = sample_labels
DictSet(dict, key, value) == (key :> value) @@ dict

\* one iteration of the loop of get_all_preds_and_labels (lines 97-100); the
\* volumes are what read_labels_and_preds finds on disk
LoadCase(volumes) ==
    /\ pc = "load"
    /\ idx <= Len(test_ids)
    /\ \E lp \in volumes :
          /\ all_labels' = DictSet(all_labels, test_ids[idx], lp[1])
          /\ all_preds' = DictSet(all_preds, test_ids[idx], lp[2])
    /\ idx' = idx + 1
    /\ UNCHANGED <<pc, dataset, test_ids, summary, results_df, site, lesion_class,
                   lesion_level_metrics, frame, ret, b_res, cm, error>>

\* line 232: compute_all_lesion_level_metrics(..., lesion_class=1) is entered
CallBasalTest ==
    /\ pc = "load"
    /\ idx > Len(test_ids)
    /\ dataset = "test"
    /\ pc' = "loop"
    /\ site' = "basal"
    /\ lesion_class' = 1
    /\ idx' = 1
    /\ lesion_level_metrics' = <<>>
    /\ UNCHANGED <<dataset, test_ids, summary, results_df, all_labels, all_preds,
                   frame, ret, b_res, cm, error>>

\* lines 232-235: b_test_lesion_wise_res is bound and the call with the default
\* lesion_class=2 is entered
CallNewTest ==
    /\ pc = "ret"
    /\ site = "basal"
    /\ b_res' = ret
    /\ pc' = "loop"
    /\ site' = "new"
    /\ lesion_class' = 2
    /\ idx' = 1
    /\ lesion_level_metrics' = <<>>
    /\ UNCHANGED <<dataset, test_ids, summary, results_df, all_labels, all_preds,
                   frame, ret, cm, error>>

\* line 257: compute_all_lesion_level_metrics(...) with the default lesion_class=2
CallNewMsseg2 ==
    /\ pc = "load"
    /\ idx > Len(test_ids)
    /\ dataset = "msseg2"
    /\ pc' = "loop"
    /\ site' = "new"
    /\ lesion_class' = 2
    /\ idx' = 1
    /\ lesion_level_metrics' = <<>>
    /\ UNCHANGED <<dataset, test_ids, summary, results_df, all_labels, all_preds,
                   frame, ret, b_res, cm, error>>

RECURSIVE MergeRows(_, _)
\* the rows of an inner join on case_id: in the order of the left keys, each left
\* row with every right row of the same key
MergeRows(left_rows, right_rows) ==
    IF left_rows = <<>>
    THEN <<>>
    ELSE LET l == Head(left_rows)
             matches == SelectSeq(right_rows, LAMBDA r : r["case_id"] = l["case_id"])
         IN  [k \in 1..Len(matches) |-> l @@ matches[k]]
                \o MergeRows(Tail(left_rows), right_rows)

\* left.merge(right, on='case_id'): how='inner' by default; KeyError when a
\* table has no column case_id
Merge(left, right) ==
    IF "case_id" \notin left.columns \/ "case_id" \notin right.columns
    THEN [err |-> TRUE, df |-> NoTable]
    ELSE [err |-> FALSE,
          df |-> [columns |-> left.columns \cup right.columns,
                  rows |-> MergeRows(left.rows, right.rows)]]

\* lines 237-238 (lines 241-244 print two subsets of the table and change nothing)
MergeTest ==
    /\ pc = "ret"
    /\ site = "new"
    /\ dataset = "test"
    /\ LET first == Merge(results_df, ret)
           second == Merge(first.df, b_res)
       IN  IF first.err \/ second.err
           THEN /\ pc' = "aborted"
                /\ error' = "KeyError"
                /\ results_df' = IF first.err THEN results_df ELSE first.df
           ELSE /\ pc' = "merged"
                /\ results_df' = second.df
                /\ UNCHANGED error
    /\ UNCHANGED <<dataset, test_ids, summary, all_labels, all_preds, site,
                   lesion_class, idx, lesion_level_metrics, frame, ret, b_res, cm>>

\* line 258 (lines 259-270 print subsets of the table and change nothing)
MergeMsseg2 ==
    /\ pc = "ret"
    /\ site = "new"
    /\ dataset = "msseg2"
    /\ LET first == Merge(results_df, ret)
       IN  IF first.err
           THEN /\ pc' = "aborted"
                /\ error' = "KeyError"
                /\ UNCHANGED results_df
           ELSE /\ pc' = "merged"
                /\ results_df' = first.df
                /\ UNCHANGED error
    /\ UNCHANGED <<dataset, test_ids, summary, all_labels, all_preds, site,
                   lesion_class, idx, lesion_level_metrics, frame, ret, b_res, cm>>

\* line 245: del all_preds, all_labels
DelVolumes ==
    /\ pc = "merged"
    /\ dataset = "test"
    /\ all_labels' = <<>>
    /\ all_preds' = <<>>
    /\ pc' = "done"
    /\ UNCHANGED <<dataset, test_ids, summary, results_df, site, lesion_class, idx,
                   lesion_level_metrics, frame, ret, b_res, cm, error>>

RECURSIVE ConcatFlattened(_, _)
\* np.concatenate([a.flatten() for a in dict.values()]): a dict keeps the order
\* in which its keys were inserted, the order of the case list
ConcatFlattened(dict, keys) ==
    IF keys = <<>>
    THEN <<>>
    ELSE Flatten(dict[Head(keys)]) \o ConcatFlattened(dict, Tail(keys))

RECURSIVE SortedSeq(_)
\* sorted(S)
SortedSeq(S) ==
    IF S = {}
    THEN <<>>
    ELSE LET m == CHOOSE x \in S : \A y \in S : x <= y
         IN  <<m>> \o SortedSeq(S \ {m})

\* sklearn.metrics.confusion_matrix(y_true, y_pred) without labels=: the classes
\* are the sorted values that occur in y_true or y_pred, and entry (i, j) counts
\* the elements of true class i predicted as class j
ConfusionMatrixOf(y_true, y_pred) ==
    LET classes == SortedSeq({y_true[k] : k \in 1..Len(y_true)}
                               \cup {y_pred[k] : k \in 1..Len(y_pred)})
    IN  [i \in 1..Len(classes) |->
            [j \in 1..Len(classes) |->
                Cardinality({k \in 1..Len(y_true) :
                                y_true[k] = classes[i] /\ y_pred[k] = classes[j]})]]

\* lines 273-275
ConfusionMatrix ==
    /\ pc = "merged"
    /\ dataset = "msseg2"
    /\ LET all_flattened_labels == ConcatFlattened(all_labels, test_ids)
           all_flattened_preds == ConcatFlattened(all_preds, test_ids)
       IN  IF test_ids = <<>> \/ Len(all_flattened_labels) # Len(all_flattened_preds)
           THEN /\ pc' = "aborted"
                /\ error' = "ValueError"
                /\ UNCHANGED cm
           ELSE /\ pc' = "done"
                /\ cm' = ConfusionMatrixOf(all_flattened_labels, all_flattened_preds)
                /\ UNCHANGED error
    /\ UNCHANGED <<dataset, test_ids, summary, results_df, all_labels, all_preds, site,
                   lesion_class, idx, lesion_level_metrics, frame, ret, b_res>>

(***************************************************************************)
(* Inputs.                                                                 *)
(***************************************************************************)
\* the volumes of a shape with at most k voxels that are not background
SparseVolumes(shape, k) ==
    UNION {{[shape |-> shape,
             data |-> [v \in Idx(shape) |-> IF v \in S THEN f[v] ELSE 0]] :
                f \in [S -> Labels \ {0}]} :
           S \in {T \in SUBSET Idx(shape) : Cardinality(T) <= k}}

\* the same-shape pairs <<labels, preds>> with at most k voxels that are not background
SparsePairs(shape, k) ==
    UNION {{<<l, p>> : p \in SparseVolumes(shape, k - NonZero(l))} :
           l \in SparseVolumes(shape, k)}

\* the arguments of a bare call
UnitInputs ==
    (VolumesOf(LineShape) \X VolumesOf(LineShape)) \cup SparsePairs(GridShape, MaxVoxels)

\* what a case of a cohort holds on disk: any labels and prediction of the case
\* shape, or a background prediction of another shape
CohortVolumes ==
    VolumesOf(CaseShape) \X (VolumesOf(CaseShape) \cup {Zeros(OtherShape)})

(***************************************************************************)
(* Specifications.                                                         *)
(***************************************************************************)
\* a call compute_all_lesion_level_metrics(ids, labels_dict, preds_dict,
\* lesion_class) on one case
Init ==
    /\ pc = "loop"
    /\ dataset = "unit"
    /\ test_ids = <<1>>
    /\ summary = <<>>
    /\ results_df = NoTable
    /\ \E lp \in UnitInputs :
          /\ all_labels = (1 :> lp[1])
          /\ all_preds = (1 :> lp[2])
    /\ site = "unit"
    /\ lesion_class \in LesionClasses
    /\ idx = 1
    /\ lesion_level_metrics = <<>>
    /\ frame = {}
    /\ ret = NoTable
    /\ b_res = NoTable
    /\ cm = <<>>
    /\ error = "none"

Next == LesionLoopStep \/ LesionReturn

Spec == Init /\ [][Next]_vars

\* a cohort section of the script, after the summary was loaded and the case
\* list was built (lines 223-228, 248-253)
CohortInit ==
    /\ pc = "load"
    /\ dataset \in {"test", "msseg2"}
    /\ test_ids \in {SortedSeq(S) : S \in SUBSET CaseIds}
    /\ summary \in {SortedSeq(S) : S \in SUBSET CaseIds}
    /\ results_df = FormatResultsIntoDf(summary)
    /\ all_labels = <<>>
    /\ all_preds = <<>>
    /\ site = "main"
    /\ lesion_class = 0
    /\ idx = 1
    /\ lesion_level_metrics = <<>>
    /\ frame = {}
    /\ ret = NoTable
    /\ b_res = NoTable
    /\ cm = <<>>
    /\ error = "none"

CohortNext ==
    \/ LoadCase(CohortVolumes)
    \/ CallBasalTest
    \/ CallNewTest
    \/ CallNewMsseg2
    \/ LesionLoopStep
    \/ LesionReturn
    \/ MergeTest
    \/ MergeMsseg2
    \/ DelVolumes
    \/ ConfusionMatrix

CohortSpec == CohortInit /\ [][CohortNext]_vars

(***************************************************************************)
(* Properties.                                                             *)
(***************************************************************************)
CaseSet == {test_ids[k] : k \in 1..Len(test_ids)}

SameShape(case) == all_labels[case].shape = all_preds[case].shape

Abs(x) == IF x < 0 THEN -x ELSE x

\* u and v share a face, an edge or a corner
Touch(u, v) ==
    /\ u # v
    /\ \A i \in 1..3 : Abs(u[i] - v[i]) <= 1

\* C cannot be split in two parts without a voxel of one touching a voxel of the other
ConnectedSet(C) ==
    \A A \in SUBSET C :
        (A # {} /\ A # C) => \E a \in A : \E b \in C \ A : Touch(a, b)

\* lesions numbers the 26-connected components of the voxels of vol of the class 1..n
IsComponentLabelling(vol, class, lesions, n) ==
    LET F == {v \in Idx(vol.shape) : vol.data[v] = class}
        L == lesions.data
    IN  /\ lesions.shape = vol.shape
        /\ \A v \in Idx(vol.shape) \ F : L[v] = 0
        /\ \A v \in F : L[v] \in 1..n
        /\ \A i \in 1..n : /\ {v \in F : L[v] = i} # {}
                           /\ ConnectedSet({v \in F : L[v] = i})
        /\ \A u \in F : \A v \in F : Touch(u, v) => L[u] = L[v]

\* the case the frame of a bare call belongs to
UnitCase == test_ids[1]

\* C1: on same-shape volumes with values in {0,1,2} and either lesion class,
\* compute_lesion_level_metrics returns with both assertions holding:
\* |tp_pred| + FP = n_predicted_lesions and |tp_gt| + FN = n_gt_lesions.
C1_AssertionsHold ==
    SameShape(UnitCase) =>
        /\ error # "AssertionError"
        /\ \A m \in frame :
              /\ m.exc = "none"
              /\ Cardinality(m.tp_pred) + m.fp = m.n_predicted_lesions
              /\ Cardinality(m.tp_gt) + m.fn = m.n_gt_lesions
        /\ (frame # {} => pc \in {"loop", "ret"} /\ Len(lesion_level_metrics) = 1)

C1_Witness ==
    /\ pc = "ret"
    /\ \E m \in frame :
          /\ m.n_gt_lesions = 1
          /\ m.n_predicted_lesions = 1
          /\ Cardinality(m.tp_gt) = 1
          /\ m.fn = 0
          /\ \E v \in Idx(m.gt_lesions.shape) :
                m.gt_lesions.data[v] \in m.tp_gt /\ m.new_predicted_lesions.data[v] = 0

\* C2: the true-positive count is the number of ground-truth instances that share
\* a voxel with a predicted voxel of the class; one predicted instance over k
\* ground-truth instances gives TP = k with |tp_pred| = 1, one ground-truth
\* instance under m predicted fragments gives TP = 1 with |tp_pred| = m, and
\* FP = FN = 0 in both cases.
C2_TruePositivesPerGroundTruth ==
    \A m \in frame :
        LET labels == all_labels[UnitCase]
            preds == all_preds[UnitCase]
            where == Idx(labels.shape)
            gt_ids == 1..m.n_gt_lesions
            pred_ids == 1..m.n_predicted_lesions
            hit == {g \in gt_ids : \E v \in where :
                        m.gt_lesions.data[v] = g /\ preds.data[v] = m.lesion_class}
            hitting == {q \in pred_ids : \E v \in where :
                        m.predicted_lesions.data[v] = q /\ labels.data[v] = m.lesion_class}
        IN  /\ m.tp = Cardinality(hit)
            /\ Cardinality(m.tp_pred) = Cardinality(hitting)
            /\ \A k \in 1..Len(lesion_level_metrics) :
                  lesion_level_metrics[k][LesionColumns(m.lesion_class).tp] = m.tp
            /\ (m.n_predicted_lesions = 1 /\ m.n_gt_lesions >= 1 /\ hit = gt_ids) =>
                  /\ m.tp = m.n_gt_lesions
                  /\ Cardinality(m.tp_pred) = 1
                  /\ m.fp = 0 /\ m.fn = 0
            /\ (m.n_gt_lesions = 1 /\ m.n_predicted_lesions >= 1 /\ hitting = pred_ids) =>
                  /\ m.tp = 1
                  /\ Cardinality(m.tp_pred) = m.n_predicted_lesions
                  /\ m.fp = 0 /\ m.fn = 0

C2_Witness ==
    \E m \in frame :
        /\ m.n_predicted_lesions = 1
        /\ m.n_gt_lesions = 2
        /\ m.tp = 2
        /\ Cardinality(m.tp_pred) = 1

\* C3: the F1 of a record is the sentinel exactly when TP = FP = FN = 0; otherwise
\* it is 2*TP / (2*TP + FP + FN), within [0, 1]; one ground-truth lesion and no
\* predicted lesion give n_gt=1, n_pred=0, TP=0, FP=0, FN=1 and F1 = 0.
C3_F1Sentinel ==
    \A k \in 1..Len(lesion_level_metrics) :
        LET row == lesion_level_metrics[k]
            col == LesionColumns(lesion_class)
            tp == row[col.tp]
            fp == row[col.fp]
            fn == row[col.fn]
            f1 == row[col.f1]
        IN  /\ f1.nan <=> (tp = 0 /\ fp = 0 /\ fn = 0)
            /\ ~f1.nan => /\ f1.num = 2 * tp
                          /\ f1.den = 2 * tp + fp + fn
                          /\ f1.den > 0
                          /\ 0 <= f1.num /\ f1.num <= f1.den
            /\ (row[col.n_ref] = 1 /\ row[col.n_pred] = 0) =>
                  /\ tp = 0 /\ fp = 0 /\ fn = 1
                  /\ ~f1.nan /\ f1.num = 0

C3_Witness ==
    /\ pc = "ret"
    /\ \E k \in 1..Len(ret.rows) :
          LET row == ret.rows[k]
              col == LesionColumns(lesion_class)
          IN  /\ row[col.n_ref] = 1 /\ row[col.n_pred] = 0
              /\ row[col.fn] = 1
              /\ ~row[col.f1].nan /\ row[col.f1].num = 0

\* C8: both instance maps number the connected components under 26-connectivity:
\* voxels touching by a face, an edge or a corner share an instance, every
\* instance is connected, the count is the number of components, and the empty
\* mask gives count 0 with an all-zero map.
C8_Connectivity26 ==
    \A m \in frame :
        /\ IsComponentLabelling(all_labels[UnitCase], m.lesion_class,
                                m.gt_lesions, m.n_gt_lesions)
        /\ IsComponentLabelling(all_preds[UnitCase], m.lesion_class,
                                m.predicted_lesions, m.n_predicted_lesions)

C8_Witness ==
    \E m \in frame :
        LET vol == all_labels[UnitCase]
            F == {v \in Idx(vol.shape) : vol.data[v] = m.lesion_class}
        IN  /\ Cardinality(F) = 2
            /\ \E u \in F : \E v \in F : \A i \in 1..3 : Abs(u[i] - v[i]) = 1
            /\ m.n_gt_lesions = 1

\* C9: after the relabelling loop every voxel that held ID p in [1, N_pred] holds
\* p + N_gt (shifted once), background stays 0, the labelled map still holds the
\* IDs 1..N_pred, and the new IDs are disjoint from [1, N_gt].
C9_RelabelledOnce ==
    \A m \in frame :
        LET where == Idx(m.predicted_lesions.shape)
            old == m.predicted_lesions.data
            new == m.new_predicted_lesions.data
        IN  /\ \A v \in where :
                  /\ old[v] \in 0..m.n_predicted_lesions
                  /\ old[v] = 0 => new[v] = 0
                  /\ old[v] > 0 => new[v] = old[v] + m.n_gt_lesions
            /\ {old[v] : v \in where} \ {0} = 1..m.n_predicted_lesions
            /\ ({new[v] : v \in where} \ {0}) \cap (1..m.n_gt_lesions) = {}

C9_Witness ==
    \E m \in frame :
        /\ m.n_gt_lesions = 1
        /\ m.n_predicted_lesions = 2
        /\ {m.new_predicted_lesions.data[v] :
               v \in Idx(m.new_predicted_lesions.shape)} = {0, 2, 3}

\* C10: a predicted instance is counted in FP exactly when none of its voxels lies
\* on a ground-truth voxel of the class; an instance partly over ground truth and
\* partly over background is in tp_pred only; tp_pred and the FP set are disjoint.
C10_FalsePositiveIffNoOverlap ==
    \A m \in frame :
        LET labels == all_labels[UnitCase]
            where == Idx(labels.shape)
            ids == (m.n_gt_lesions + 1)..(m.n_gt_lesions + m.n_predicted_lesions)
            Vox(q) == {v \in where : m.new_predicted_lesions.data[v] = q}
            OnGt(v) == labels.data[v] = m.lesion_class
        IN  /\ m.fp_set \subseteq ids
            /\ m.tp_pred \subseteq ids
            /\ m.fp = Cardinality(m.fp_set)
            /\ m.tp_pred \cap m.fp_set = {}
            /\ \A q \in ids :
                  /\ q \in m.fp_set <=> \A v \in Vox(q) : ~OnGt(v)
                  /\ ((\E v \in Vox(q) : OnGt(v)) /\ (\E v \in Vox(q) : ~OnGt(v))) =>
                        q \in m.tp_pred /\ q \notin m.fp_set
            /\ \A k \in 1..Len(lesion_level_metrics) :
                  lesion_level_metrics[k][LesionColumns(m.lesion_class).fp] = m.fp

C10_Witness ==
    \E m \in frame :
        LET labels == all_labels[UnitCase]
            where == Idx(labels.shape)
        IN  \E q \in m.tp_pred :
               /\ \E v \in where : m.new_predicted_lesions.data[v] = q
                                    /\ labels.data[v] = m.lesion_class
               /\ \E v \in where : m.new_predicted_lesions.data[v] = q
                                    /\ labels.data[v] # m.lesion_class
               /\ m.fp = 0

\* C4: a case identifier present in one table and absent from another makes the
\* merge fail: a merged table exists only when the summary and the case list hold
\* the same cases, and it has a row for every case of the list.
C4_MergeKeyMismatchFails ==
    pc \in {"merged", "done"} =>
        /\ {summary[k] : k \in 1..Len(summary)} = CaseSet
        /\ Len(results_df.rows) = Len(test_ids)

C6_AtMostOneCaseHeld ==
    /\ Cardinality(DOMAIN all_labels) <= 1
    /\ Cardinality(DOMAIN all_preds) <= 1

\* C6 amended: the volumes of every case of the list are decoded before the first
\* metric is computed and all of them are held while the lesion tables are
\* computed and merged; the test section releases them together after the merge
\* (del), the MSSEG2 section keeps them for the confusion matrix.
C6_WholeCohortHeld ==
    /\ DOMAIN all_labels = DOMAIN all_preds
    /\ pc = "load" => DOMAIN all_labels = {test_ids[k] : k \in 1..(idx - 1)}
    /\ pc \in {"loop", "ret", "merged", "aborted"} => DOMAIN all_labels = CaseSet
    /\ pc = "done" => DOMAIN all_labels = IF dataset = "test" THEN {} ELSE CaseSet

C6_Witness ==
    /\ pc = "loop"
    /\ idx = 2
    /\ Len(lesion_level_metrics) = 1
    /\ Cardinality(DOMAIN all_labels) = 2
    /\ Cardinality(DOMAIN all_preds) = 2

RECURSIVE VoxelCount(_, _, _)
\* the voxels of the cases with ground-truth label i and predicted label j
VoxelCount(cases, i, j) ==
    IF cases = {}
    THEN 0
    ELSE LET c == CHOOSE x \in cases : TRUE
         IN  Cardinality({v \in Idx(all_labels[c].shape) :
                             all_labels[c].data[v] = i /\ all_preds[c].data[v] = j})
                + VoxelCount(cases \ {c}, i, j)

\* C7: the confusion matrix is the 3x3 matrix over the labels {0,1,2} whose entry
\* (i, j) is the number of voxels of the cohort with ground-truth label i and
\* predicted label j, also when a label occurs in no volume.
C7_ConfusionMatrixThreeByThree ==
    (pc = "done" /\ dataset = "msseg2") =>
        cm = [i \in 1..3 |-> [j \in 1..3 |-> VoxelCount(CaseSet, i - 1, j - 1)]]

====
